---- MODULE Spec2Model ----
(***************************************************************************)
(* Uniform domain division (UDD) of a triangle scene and 3D-DDA traversal  *)
(* of the voxel grid: rtUddCreate, rtUddVoxelize, rtUddFindStartupVoxel    *)
(* and rtUddTraverse of voxelize.c, with rtVoxelAddTriangle and the inline *)
(* helpers of voxelize.h.                                                  *)
(*                                                                         *)
(* Numbers.  The source computes in IEEE single precision.  The model      *)
(* computes in exact rational arithmetic: a length is a rational number of *)
(* units of 0.001 (the inflation constant of rtUddCreate, Eps below), and  *)
(* a rational is a pair <<n, d>> with d > 0 in lowest terms.  Conversions  *)
(* float -> int32_t are modelled by what C does: truncation toward zero.   *)
(* Rounding of float operations is not modelled.                           *)
(*                                                                         *)
(* Arrays.  C arrays indexed 0..2 (x, y, z) are tuples indexed 1..3.       *)
(* Voxel indices (i, j, k) and array offsets keep their C values (from 0). *)
(* Triangles are identified by their position 1..nt in scene->t; 0 stands  *)
(* for the NULL pointer.                                                   *)
(***************************************************************************)
EXTENDS Integers, Sequences, FiniteSets, TLC

\* ------------------------------------------------------------------------
\* Bounds of the model
\* ------------------------------------------------------------------------

\* Triangle vertices have integer coordinates in 0..MaxCoord (units of Eps).
MaxCoord == 2

\* The model's stand-in for the 0.001f of rtUddCreate: the unit of length.
Eps == 1

\* BUFSIZE of rtUddVoxelize.
BUFSIZE == 10

\* Stand-in for FLT_MAX: larger than every ray parameter the bounds reach.
FLT_MAX == 1000000

\* The model stops a traversal that has started MaxIter loop iterations.
MaxIter == 12
MaxInsert == 7
MaxBuf == 3

Axes == 1..3

\* ------------------------------------------------------------------------
\* Rational arithmetic (exact stand-in for float)
\* ------------------------------------------------------------------------

Abs(x) == IF x < 0 THEN -x ELSE x

RECURSIVE Gcd(_, _)
Gcd(a, b) == IF b = 0 THEN a ELSE Gcd(b, a % b)

\* The rational n/d (d # 0) in lowest terms with a positive denominator.
Rat(n, d) ==
  LET g == Gcd(Abs(n), Abs(d))
      sg == IF d < 0 THEN -1 ELSE 1
  IN  <<sg * (n \div g), sg * (d \div g)>>

RInt(n) == <<n, 1>>
RAdd(a, b) == Rat(a[1] * b[2] + b[1] * a[2], a[2] * b[2])
RSub(a, b) == Rat(a[1] * b[2] - b[1] * a[2], a[2] * b[2])
RMul(a, b) == Rat(a[1] * b[1], a[2] * b[2])
RDiv(a, b) == Rat(a[1] * b[2], a[2] * b[1])
RLt(a, b) == a[1] * b[2] < b[1] * a[2]
RLe(a, b) == a[1] * b[2] <= b[1] * a[2]
RSign(a) == IF a[1] > 0 THEN 1 ELSE IF a[1] < 0 THEN -1 ELSE 0
RAbs(a) == <<Abs(a[1]), a[2]>>
RMin(a, b) == IF RLt(b, a) THEN b ELSE a

\* A conversion that rounds up instead of discarding the fractional part.
TruncUp(a) == IF a[1] % a[2] = 0 THEN a[1] \div a[2] ELSE (a[1] \div a[2]) + 1

\* Conversion of a float to int32_t: the fractional part is discarded
\* (truncation toward zero), as in `*i = (v[0] - dmin[0]) / s[0]`.
Trunc(a) == IF a[1] >= 0 THEN a[1] \div a[2] ELSE -((-a[1]) \div a[2])

\* ------------------------------------------------------------------------
\* Vectors
\* ------------------------------------------------------------------------

VSub(a, b) == [x \in Axes |-> a[x] - b[x]]
Dotp(a, b) == a[1] * b[1] + a[2] * b[2] + a[3] * b[3]
Crossp(a, b) ==
  << a[2] * b[3] - a[3] * b[2],
     a[3] * b[1] - a[1] * b[3],
     a[1] * b[2] - a[2] * b[1] >>

\* rtVectorDotp of an integer vector and a rational point.
RDotp(n, p) ==
  RAdd(RAdd(RMul(RInt(n[1]), p[1]), RMul(RInt(n[2]), p[2])), RMul(RInt(n[3]), p[3]))

Min3(a, b, c) == IF a <= b THEN (IF a <= c THEN a ELSE c) ELSE (IF b <= c THEN b ELSE c)
Max3(a, b, c) == IF a >= b THEN (IF a >= c THEN a ELSE c) ELSE (IF b >= c THEN b ELSE c)

\* ------------------------------------------------------------------------
\* Scene (RT_Scene): triangles with their plane, and the domain bounds
\* ------------------------------------------------------------------------

\* A triangle with its precomputed plane (n, d): n is the cross product of
\* the edge vectors i->j and i->k and d = -(i . n), so that n . x + d = 0 on
\* the triangle's plane.  The source also normalises n and orients it toward
\* the observer; both scale n and d by one non-zero factor, which changes no
\* sign comparison of the voxelizer, so the model keeps the integer vector.
Triangle(i, j, k) ==
  LET n == Crossp(VSub(j, i), VSub(k, i))
  IN  [i |-> i, j |-> j, k |-> k, n |-> n, d |-> -Dotp(i, n)]

\* Domain bounds as the scene loader leaves them: the bounding box of all
\* triangle vertices.
SceneMin(ts) ==
  [a \in Axes |-> CHOOSE m \in {ts[x].i[a] : x \in DOMAIN ts} \cup {ts[x].j[a] : x \in DOMAIN ts}
                                 \cup {ts[x].k[a] : x \in DOMAIN ts} :
       \A x \in DOMAIN ts : m <= ts[x].i[a] /\ m <= ts[x].j[a] /\ m <= ts[x].k[a]]
SceneMax(ts) ==
  [a \in Axes |-> CHOOSE m \in {ts[x].i[a] : x \in DOMAIN ts} \cup {ts[x].j[a] : x \in DOMAIN ts}
                                 \cup {ts[x].k[a] : x \in DOMAIN ts} :
       \A x \in DOMAIN ts : m >= ts[x].i[a] /\ m >= ts[x].j[a] /\ m >= ts[x].k[a]]

Scene(ts) == [nt |-> Len(ts), t |-> ts, dmin |-> SceneMin(ts), dmax |-> SceneMax(ts)]

\* ------------------------------------------------------------------------
\* voxelize.h: inline helpers
\* ------------------------------------------------------------------------

\* (v[a] - dmin[a]) / s[a] converted to int32_t, for a rational point v.
VoxelIndex(sc, g, v) ==
  [a \in Axes |-> Trunc(RDiv(RSub(v[a], RInt(sc.dmin[a])), g.s[a]))]

\* rtVertexGetVoxel: the indices, and 1 if they are in range, else 0.
rtVertexGetVoxel(sc, g, v) ==
  LET idx == VoxelIndex(sc, g, v)
  IN  [i |-> idx[1], j |-> idx[2], k |-> idx[3],
       ret |-> IF \E a \in Axes : idx[a] < 0 \/ idx[a] >= g.nv[a] THEN 0 ELSE 1]

rtVoxelArrayOffset(g, i, j, k) == (i * g.nv[2] + j) * g.nv[3] + k

\* ------------------------------------------------------------------------
\* malloc: the calls are numbered 1, 2, ... in program order.  The model lets
\* at most one call fail: `oom` is the number of the call that returns NULL,
\* or 0 when every call succeeds.
\* ------------------------------------------------------------------------

MallocOk(oomAt, call) == call # oomAt

\* ------------------------------------------------------------------------
\* rtVoxelAddTriangle
\* ------------------------------------------------------------------------

NULL == 0
E_MEMORY == 1

\* A voxel (RT_Voxel): nt, p, and the array t as the sequence of its first nt
\* slots (the slots after them hold NULL); cap is the number of slots
\* allocated, 0 while t is the NULL pointer.
ZeroVoxel == [nt |-> 0, p |-> 0, cap |-> 0, t |-> <<>>]

\* v->t[v->nt++] = t; v->p--;
VoxelStore(w, t) == [w EXCEPT !.t = Append(w.t, t), !.nt = w.nt + 1, !.p = w.p - 1]

\* An insertion whose reallocation does not copy the old list to the new
\* buffer.
rtVoxelAddTriangleNoCopy(st, oomAt, off, t, bufsize) ==
  LET v == st.v[off]
      call == st.mallocs + 1
  IN  IF v.cap = 0
      THEN IF ~MallocOk(oomAt, call)
           THEN [st EXCEPT !.mallocs = call, !.errno = E_MEMORY]
           ELSE [st EXCEPT !.mallocs = call,
                           !.v[off] = VoxelStore([v EXCEPT !.cap = bufsize, !.p = bufsize], t)]
      ELSE IF v.p = 0
      THEN IF ~MallocOk(oomAt, call)
           THEN [st EXCEPT !.mallocs = call, !.errno = E_MEMORY]
           ELSE [st EXCEPT !.mallocs = call,
                           !.v[off] = [nt |-> v.nt + 1, p |-> bufsize - 1,
                                       cap |-> v.nt + bufsize, t |-> <<t>>]]
      ELSE [st EXCEPT !.v[off] = VoxelStore(v, t)]

\* The value rtVoxelAddTriangle(&v[off], t, bufsize) returns: 0 when the
\* malloc it makes fails, 1 otherwise.
rtVoxelAddTriangleRet(st, oomAt, off) ==
  IF (st.v[off].cap = 0 \/ st.v[off].p = 0) /\ ~MallocOk(oomAt, st.mallocs + 1)
  THEN 0 ELSE 1

\* State threaded through the insertions of one rtUddVoxelize run: the voxel
\* array, the number of malloc calls made, errno.
\* Result of rtVoxelAddTriangle(&v[off], t, bufsize) on such a state.
rtVoxelAddTriangle(st, oomAt, off, t, bufsize) ==
  LET v == st.v[off]
      call == st.mallocs + 1
  IN  IF v.cap = 0
      THEN IF ~MallocOk(oomAt, call)
           THEN [st EXCEPT !.mallocs = call, !.errno = E_MEMORY]
           ELSE [st EXCEPT !.mallocs = call,
                           !.v[off] = VoxelStore([v EXCEPT !.cap = bufsize, !.p = bufsize], t)]
      ELSE IF v.p = 0
      THEN IF ~MallocOk(oomAt, call)
           THEN [st EXCEPT !.mallocs = call, !.errno = E_MEMORY]
           ELSE [st EXCEPT !.mallocs = call,
                           !.v[off] = VoxelStore([v EXCEPT !.cap = v.nt + bufsize,
                                                           !.p = bufsize], t)]
      ELSE [st EXCEPT !.v[off] = VoxelStore(v, t)]

\* ------------------------------------------------------------------------
\* rtUddCreate
\* ------------------------------------------------------------------------

\* A domain size without the added 0.001.
DomainSizeNoEps(dmin, dmax) == [a \in Axes |-> dmax[a] - dmin[a]]

\* ds[k] = dmax[k] - dmin[k] + 0.001, on the inflated bounds.
DomainSize(dmin, dmax) == [a \in Axes |-> dmax[a] - dmin[a] + Eps]

\* tmp = ceil(ds[k] * v) with v = pow(nt / (ds[0]*ds[1]*ds[2]), 0.33333f) + 0.001f:
\* the least integer n >= 1 with n >= ds[k] * cbrt(nt / (ds[0]*ds[1]*ds[2])),
\* that is with n^3 * ds[0]*ds[1]*ds[2] >= ds[k]^3 * nt.  (The exponent being
\* a little under 1/3 and the added 0.001f move ds[k]*v by less than the
\* distance of ds[k]*cbrt(..) to the next integer for the scenes of the
\* model; for nt = 0 the value is ceil(ds[k] * 0.001) = 1.)
GridCount(ds, nt, k) ==
  CHOOSE n \in 1..(ds[k] * (nt + 1)) :
     /\ n * n * n * ds[1] * ds[2] * ds[3] >= ds[k] * ds[k] * ds[k] * nt
     /\ \A m \in 1..(n - 1) :
          m * m * m * ds[1] * ds[2] * ds[3] < ds[k] * ds[k] * ds[k] * nt

\* The grid rtUddCreate builds on the inflated bounds: nv, s and the zeroed
\* voxel array.
NewUdd(dmin, dmax, nt) ==
  LET ds == DomainSize(dmin, dmax)
      nv == [a \in Axes |-> GridCount(ds, nt, a)]
  IN  [nv |-> nv,
       s |-> [a \in Axes |-> Rat(ds[a], nv[a])],
       v |-> [x \in 0..(nv[1] * nv[2] * nv[3] - 1) |-> ZeroVoxel]]

\* ------------------------------------------------------------------------
\* rtUddVoxelize: the body of the loop over triangles
\* ------------------------------------------------------------------------

\* iidx, jidx, kidx: voxel indices of the three vertices, and the candidate
\* index box min[a]..max[a].
VertexIndex(sc, g, p) == VoxelIndex(sc, g, [a \in Axes |-> RInt(p[a])])

BoxMin(sc, g, tr) ==
  [a \in Axes |-> Min3(VertexIndex(sc, g, tr.i)[a], VertexIndex(sc, g, tr.j)[a],
                       VertexIndex(sc, g, tr.k)[a])]
BoxMax(sc, g, tr) ==
  [a \in Axes |-> Max3(VertexIndex(sc, g, tr.i)[a], VertexIndex(sc, g, tr.j)[a],
                       VertexIndex(sc, g, tr.k)[a])]

\* x1, y1, z1 and x2, y2, z2 of voxel (i, j, k).
VoxelLo(sc, g, idx) == [a \in Axes |-> RAdd(RInt(sc.dmin[a]), RMul(RInt(idx[a]), g.s[a]))]
VoxelHi(sc, g, idx) == [a \in Axes |-> RAdd(VoxelLo(sc, g, idx)[a], g.s[a])]

\* The eight points the source builds as the voxel's corners, in the order
\* bcl, bcr, bfl, bfr, ucl, ucr, ufl, ufr.  bfl and ufl take x2 as their
\* third coordinate, as the source does.
Corners(sc, g, idx) ==
  LET lo == VoxelLo(sc, g, idx)
      hi == VoxelHi(sc, g, idx)
      x1 == lo[1]  x2 == hi[1]
      y1 == lo[2]  y2 == hi[2]
      z1 == lo[3]  z2 == hi[3]
  IN  << <<x1, y1, z1>>, <<x2, y1, z1>>, <<x1, y1, x2>>, <<x2, y1, z2>>,
         <<x1, y2, z1>>, <<x2, y2, z1>>, <<x1, y2, x2>>, <<x2, y2, z2>> >>

\* rtVectorDotp(t->n, corner) + t->d
PlaneValue(tr, p) == RAdd(RDotp(tr.n, p), RInt(tr.d))

\* The nested tests s1*s2 > 0.0f: the voxel is skipped (`continue`) when the
\* product of s1 (at bcl) with the value at each other corner is positive.
SameSide(tr, cs) ==
  LET s1 == PlaneValue(tr, cs[1])
  IN  \A c \in 2..8 : RSign(RMul(s1, PlaneValue(tr, cs[c]))) > 0

\* The offsets into which the loop body inserts triangle tr, in loop order.
RECURSIVE BoxOffsets(_, _, _, _, _, _)
BoxOffsets(sc, g, tr, mn, mx, idx) ==
  LET next == IF idx[3] < mx[3] THEN <<idx[1], idx[2], idx[3] + 1>>
              ELSE IF idx[2] < mx[2] THEN <<idx[1], idx[2] + 1, mn[3]>>
              ELSE <<idx[1] + 1, mn[2], mn[3]>>
      here == IF SameSide(tr, Corners(sc, g, idx)) THEN <<>>
              ELSE <<rtVoxelArrayOffset(g, idx[1], idx[2], idx[3])>>
  IN  IF idx[1] > mx[1] THEN <<>>
      ELSE here \o BoxOffsets(sc, g, tr, mn, mx, next)

TriangleOffsets(sc, g, tr) ==
  LET mn == BoxMin(sc, g, tr)
      mx == BoxMax(sc, g, tr)
  IN  IF mn = mx THEN <<rtVoxelArrayOffset(g, mn[1], mn[2], mn[3])>>
      ELSE BoxOffsets(sc, g, tr, mn, mx, mn)

\* The calls rtVoxelAddTriangle(vptr, t, BUFSIZE) of one loop iteration; the
\* return value of each call is ignored.
RECURSIVE AddAll(_, _, _, _)
AddAll(st, oomAt, offs, t) ==
  IF offs = <<>> THEN st
  ELSE AddAll(rtVoxelAddTriangle(st, oomAt, Head(offs), t, BUFSIZE), oomAt, Tail(offs), t)

\* ------------------------------------------------------------------------
\* rtUddFindStartupVoxel
\* ------------------------------------------------------------------------

RPoint(p) == [a \in Axes |-> RInt(p[a])]

\* rtVectorRaypoint(out, o, r, d): o + d*r
rtVectorRaypoint(o, r, d) == [a \in Axes |-> RAdd(RInt(o[a]), RMul(d, RInt(r[a])))]

\* The distances d the loop over the axes computes, in program order:
\* (dmin[a] - o[a]) / r[a] then (dmax[a] - o[a]) / r[a], for each axis a with
\* r[a] # 0.
RECURSIVE WallDistances(_, _, _, _)
WallDistances(sc, o, r, a) ==
  IF a > 3 THEN <<>>
  ELSE (IF r[a] # 0
        THEN <<Rat(sc.dmin[a] - o[a], r[a]), Rat(sc.dmax[a] - o[a], r[a])>>
        ELSE <<>>) \o WallDistances(sc, o, r, a + 1)

\* The updates of dmin1 and dmin2 by the distances ds, from m = <<dmin1, dmin2>>.
RECURSIVE TwoSmallest(_, _)
TwoSmallest(m, ds) ==
  IF ds = <<>> THEN m
  ELSE LET d == Head(ds)
           m2 == IF RSign(d) > 0
                 THEN IF RLt(d, m[1]) THEN <<d, m[1]>>
                      ELSE IF RLt(d, m[2]) THEN <<m[1], d>>
                      ELSE m
                 ELSE m
       IN  TwoSmallest(m2, Tail(ds))

\* The result of rtUddFindStartupVoxel(self, scene, o, r, &i, &j, &k): the
\* return value and the indices left in *i, *j, *k.
rtUddFindStartupVoxel(sc, g, o, r) ==
  LET v0 == rtVertexGetVoxel(sc, g, RPoint(o))
      m  == TwoSmallest(<<RInt(FLT_MAX), RInt(FLT_MAX)>>, WallDistances(sc, o, r, 1))
      v1 == rtVertexGetVoxel(sc, g, rtVectorRaypoint(o, r, m[1]))
      v2 == rtVertexGetVoxel(sc, g, rtVectorRaypoint(o, r, m[2]))
  IN  IF v0.ret = 1 THEN v0
      ELSE IF v1.ret = 1 THEN v1
      ELSE v2

\* ------------------------------------------------------------------------
\* The intersection predicate (*t)->isint: hit iff the ray o + d*r meets the
\* triangle for some d > 0, and then d is that distance.
\* ------------------------------------------------------------------------

isint(tr, o, r) ==
  LET ij   == VSub(tr.j, tr.i)
      ik   == VSub(tr.k, tr.i)
      pvec == Crossp(r, ik)
      det  == Dotp(ij, pvec)
      tvec == VSub(o, tr.i)
      qvec == Crossp(tvec, ij)
      sg   == IF det < 0 THEN -1 ELSE 1
      u    == sg * Dotp(tvec, pvec)
      w    == sg * Dotp(r, qvec)
      dn   == sg * Dotp(ik, qvec)
      ad   == sg * det
  IN  IF det = 0 \/ u < 0 \/ u > ad \/ w < 0 \/ u + w > ad \/ dn <= 0
      THEN [hit |-> FALSE, d |-> RInt(0)]
      ELSE [hit |-> TRUE, d |-> Rat(dn, ad)]

\* ------------------------------------------------------------------------
\* rtUddTraverse
\* ------------------------------------------------------------------------

\* dtx, dty, dtz and tx, ty, tz before the loop, for entry voxel idx.
EntryDt(sc, g, o, r, idx) ==
  [a \in Axes |->
     IF r[a] = 0 THEN RInt(FLT_MAX)
     ELSE LET x1 == VoxelLo(sc, g, idx)[a]
              x2 == RAdd(x1, g.s[a])
              dt1 == RDiv(RSub(x1, RInt(o[a])), RInt(r[a]))
              dt2 == RDiv(RSub(x2, RInt(o[a])), RInt(r[a]))
          IN  RAbs(RSub(dt2, dt1))]

EntryT(sc, g, o, r, idx) ==
  [a \in Axes |->
     IF r[a] = 0 THEN RInt(0)
     ELSE LET x1 == VoxelLo(sc, g, idx)[a]
              x2 == RAdd(x1, g.s[a])
              dt1 == RDiv(RSub(x1, RInt(o[a])), RInt(r[a]))
              dt2 == RDiv(RSub(x2, RInt(o[a])), RInt(r[a]))
          IN  IF RLt(dt1, dt2) THEN dt1 ELSE dt2]

\* Steps that ignore the sign of the direction.
StepDirUp(r) == [a \in Axes |-> 1]

\* di, dj, dk
StepDir(r) == [a \in Axes |-> IF r[a] > 0 THEN 1 ELSE -1]

\* The scan of one voxel's triangle list: from acc = [dmin, nearest, called],
\* over the list ts, skipping `current`.
\* The body of the scan for one triangle t # current with predicate result h.
ScanOne(acc, t, h) ==
  [dmin |-> IF h.hit /\ RLt(h.d, acc.dmin) THEN h.d ELSE acc.dmin,
   nearest |-> IF h.hit /\ RLt(h.d, acc.dmin) THEN t ELSE acc.nearest,
   called |-> acc.called \cup {t}]

\* A scan that does not compare the triangles with `current`.
RECURSIVE ScanVoxelAll(_, _, _, _, _, _)
ScanVoxelAll(sc, acc, ts, cur, o, r) ==
  IF ts = <<>> THEN acc
  ELSE ScanVoxelAll(sc, ScanOne(acc, Head(ts), isint(sc.t[Head(ts)], o, r)),
                    Tail(ts), cur, o, r)

RECURSIVE ScanVoxel(_, _, _, _, _, _)
ScanVoxel(sc, acc, ts, cur, o, r) ==
  IF ts = <<>> THEN acc
  ELSE IF Head(ts) # cur
       THEN ScanVoxel(sc, ScanOne(acc, Head(ts), isint(sc.t[Head(ts)], o, r)),
                      Tail(ts), cur, o, r)
       ELSE ScanVoxel(sc, acc, Tail(ts), cur, o, r)

\* A choice of axis made with <= in place of <.
StepAxisLe(tn) ==
  IF RLe(tn[1], tn[2])
  THEN (IF RLe(tn[1], tn[3]) THEN 1 ELSE 3)
  ELSE (IF RLe(tn[2], tn[3]) THEN 2 ELSE 3)

\* The axis the step advances (1 = x, 2 = y, 3 = z), from tx_n, ty_n, tz_n.
StepAxis(tn) ==
  IF RLt(tn[1], tn[2])
  THEN (IF RLt(tn[1], tn[3]) THEN 1 ELSE 3)
  ELSE (IF RLt(tn[2], tn[3]) THEN 2 ELSE 3)

\* A termination check that tests only the upper end of each index range.
TerminationCheckUpper(g, idx) == \E a \in Axes : idx[a] >= g.nv[a]

\* The termination check after a step: TRUE when the loop returns NULL,
\* if(i<0 || i>=self->nv[0]) return NULL; and the same for j and k.
TerminationCheck(g, idx) == \E a \in Axes : idx[a] < 0 \/ idx[a] >= g.nv[a]

\* ------------------------------------------------------------------------
\* State
\* ------------------------------------------------------------------------

VARIABLES
  scene,     \* RT_Scene: nt, t, dmin, dmax
  udd,       \* RT_Udd: nv, s, v; NULL before rtUddCreate and when it fails
  oom,       \* number of the malloc call that fails, 0 for none
  mallocs,   \* malloc calls made so far
  errno,     \* 0 or E_MEMORY
  pc,        \* position of the program
  tpos,      \* rtUddVoxelize: position of `t` in scene->t (1..nt+1)
  ray,       \* the ray of the query: [o, r]
  current,   \* rtUddTraverse: the triangle to skip, or NULL
  ijk,       \* <<i, j, k>>: written by the locator, stepped by the traverser
  found,     \* return value of rtUddFindStartupVoxel
  tpar,      \* rtUddTraverse: <<tx, ty, tz>>
  dtpar,     \* rtUddTraverse: <<dtx, dty, dtz>>
  ret,       \* rtUddTraverse: the triangle returned (NULL for none)
  dist,      \* rtUddTraverse: dmin at the return of a triangle
  called,    \* triangles on which isint has been invoked by this traversal
  iter,      \* iterations of `while(1)` started by this traversal
  vox,       \* a voxel (RT_Voxel) that rtVoxelAddTriangle is called on directly
  bufsize,   \* the `bufsize` argument of those calls
  inserted   \* the triangles of the calls on vox that returned 1, in call order

buildVars == <<scene, udd, oom, mallocs, errno, tpos>>
rayVars   == <<ray, current, ijk, found, tpar, dtpar, ret, dist, called, iter>>
listVars  == <<vox, bufsize, inserted>>
vars      == <<scene, udd, oom, mallocs, errno, pc, tpos,
               ray, current, ijk, found, tpar, dtpar, ret, dist, called, iter,
               vox, bufsize, inserted>>

\* ------------------------------------------------------------------------
\* Scenes and rays of the model
\* ------------------------------------------------------------------------

PointsOn(c) == {<<x, y, z>> : x \in 0..c, y \in 0..c, z \in 0..c}
PointRank(p, c) == (p[1] * (c + 1) + p[2]) * (c + 1) + p[3]

\* Triangles with vertices on the lattice 0..c, one per set of three
\* vertices that are not collinear.
TrianglesOn(c) ==
  {tr \in {Triangle(p1, p2, p3) : p1 \in PointsOn(c), p2 \in PointsOn(c), p3 \in PointsOn(c)} :
     /\ PointRank(tr.i, c) < PointRank(tr.j, c)
     /\ PointRank(tr.j, c) < PointRank(tr.k, c)
     /\ tr.n # <<0, 0, 0>>}

UnitVectors == {<<1, 0, 0>>, <<0, 1, 0>>, <<0, 0, 1>>}

Shifted(tr, e) ==
  Triangle([a \in Axes |-> tr.i[a] + e[a]], [a \in Axes |-> tr.j[a] + e[a]],
           [a \in Axes |-> tr.k[a] + e[a]])

\* Scenes of one triangle.
SinglesOn(c) == {<<tr>> : tr \in TrianglesOn(c)}

\* Scenes of two triangles: a triangle and its copy one unit further along
\* an axis (two parallel triangles).
CopiesOn(c) == {<<tr, Shifted(tr, e)>> : tr \in TrianglesOn(c), e \in UnitVectors}

\* The triangle (0,0,0), (2,0,0), (0,2,0), alone, with a parallel copy above
\* it and with a parallel copy below it.
FlatTriangle == Triangle(<<0, 0, 0>>, <<2, 0, 0>>, <<0, 2, 0>>)
StackedPair == <<FlatTriangle, Shifted(FlatTriangle, <<0, 0, 1>>)>>
ScenarioScenes ==
  { <<FlatTriangle>>,
    StackedPair,
    <<FlatTriangle, Shifted(FlatTriangle, <<0, 0, -1>>)>> }

\* Two parallel sloped triangles, (0,2,1), (1,0,2), (2,2,2) and its copy one
\* unit higher.
SlopedTriangle == Triangle(<<0, 2, 1>>, <<1, 0, 2>>, <<2, 2, 2>>)
SlopedPair == <<SlopedTriangle, Shifted(SlopedTriangle, <<0, 0, 1>>)>>

\* The triangle (0,0,0), (4,0,0), (0,4,0).
WideTriangle == Triangle(<<0, 0, 0>>, <<4, 0, 0>>, <<0, 4, 0>>)

\* Ray origins: lattice points at most m units outside the inflated bounds.
Origins(sc, m) ==
  {<<x, y, z>> : x \in (sc.dmin[1] - m)..(sc.dmax[1] + m),
                 y \in (sc.dmin[2] - m)..(sc.dmax[2] + m),
                 z \in (sc.dmin[3] - m)..(sc.dmax[3] + m)}

\* Ray directions: the non-zero vectors with components -1, 0, 1 (the
\* source expects r normalised; none of the modelled functions uses |r| = 1,
\* and a distance d along r is in units of |r|).
Directions == {<<x, y, z>> : x \in -1..1, y \in -1..1, z \in -1..1} \ {<<0, 0, 0>>}

InitState(scenes, ooms, bufs) ==
  /\ scene \in {Scene(ts) : ts \in scenes}
  /\ udd = NULL
  /\ oom \in ooms
  /\ mallocs = 0
  /\ errno = 0
  /\ pc = "start"
  /\ tpos = 0
  /\ ray = [o |-> <<0, 0, 0>>, r |-> <<0, 0, 0>>]
  /\ current = NULL
  /\ ijk = <<0, 0, 0>>
  /\ found = 0
  /\ tpar = <<RInt(0), RInt(0), RInt(0)>>
  /\ dtpar = <<RInt(0), RInt(0), RInt(0)>>
  /\ ret = NULL
  /\ dist = RInt(0)
  /\ called = {}
  /\ iter = 0
  /\ vox = ZeroVoxel
  /\ bufsize \in bufs
  /\ inserted = <<>>

InitWith(scenes, ooms) == InitState(scenes, ooms, {BUFSIZE})

\* ------------------------------------------------------------------------
\* Actions
\* ------------------------------------------------------------------------

\* rtUddCreate(scene): two malloc calls (the RT_Udd, then the voxel array);
\* the bounds of the scene are inflated between them.
rtUddCreate ==
  /\ pc = "start"
  /\ LET dmin == [a \in Axes |-> scene.dmin[a] - Eps]
         dmax == [a \in Axes |-> scene.dmax[a] + Eps]
     IN  IF ~MallocOk(oom, mallocs + 1)
         THEN /\ mallocs' = mallocs + 1
              /\ errno' = E_MEMORY
              /\ UNCHANGED <<scene, udd>>
              /\ pc' = "nogrid"
         ELSE /\ scene' = [scene EXCEPT !.dmin = dmin, !.dmax = dmax]
              /\ mallocs' = mallocs + 2
              /\ IF ~MallocOk(oom, mallocs + 2)
                 THEN errno' = E_MEMORY /\ udd' = NULL /\ pc' = "nogrid"
                 ELSE /\ udd' = NewUdd(dmin, dmax, scene.nt)
                      /\ pc' = "created"
                      /\ UNCHANGED errno
  /\ UNCHANGED <<oom, tpos>>
  /\ UNCHANGED rayVars
  /\ UNCHANGED listVars

\* rtUddVoxelize(self, scene), up to the loop: the malloc of `tmp`.
rtUddVoxelize ==
  /\ pc = "created"
  /\ mallocs' = mallocs + 1
  /\ IF ~MallocOk(oom, mallocs + 1)
     THEN errno' = E_MEMORY /\ pc' = "voxelized" /\ UNCHANGED tpos
     ELSE tpos' = 1 /\ pc' = "voxelize" /\ UNCHANGED errno
  /\ UNCHANGED <<scene, udd, oom>>
  /\ UNCHANGED rayVars
  /\ UNCHANGED listVars

\* One iteration of `while(t < maxt)`: triangle t is added to its voxels.
VoxelizeTriangle ==
  /\ pc = "voxelize"
  /\ tpos <= scene.nt
  /\ LET st == AddAll([v |-> udd.v, mallocs |-> mallocs, errno |-> errno], oom,
                      TriangleOffsets(scene, udd, scene.t[tpos]), tpos)
     IN  /\ udd' = [udd EXCEPT !.v = st.v]
         /\ mallocs' = st.mallocs
         /\ errno' = st.errno
  /\ tpos' = tpos + 1
  /\ UNCHANGED <<scene, oom, pc>>
  /\ UNCHANGED rayVars
  /\ UNCHANGED listVars

\* `while(t < maxt)` ends: rtUddVoxelize returns (void).
VoxelizeReturn ==
  /\ pc = "voxelize"
  /\ tpos > scene.nt
  /\ pc' = "voxelized"
  /\ UNCHANGED buildVars
  /\ UNCHANGED rayVars
  /\ UNCHANGED listVars

\* A query: rtUddFindStartupVoxel(self, scene, o, r, &i, &j, &k) for a ray
\* with origin at most m outside the bounds.
FindStartupVoxel(m) ==
  /\ pc = "voxelized"
  /\ \E o \in Origins(scene, m), r \in Directions :
       LET res == rtUddFindStartupVoxel(scene, udd, o, r)
       IN  /\ ray' = [o |-> o, r |-> r]
           /\ ijk' = <<res.i, res.j, res.k>>
           /\ found' = res.ret
           /\ pc' = IF res.ret = 1 THEN "located" ELSE "miss"
  /\ UNCHANGED buildVars
  /\ UNCHANGED <<current, tpar, dtpar, ret, dist, called, iter>>
  /\ UNCHANGED listVars

\* A caller's choice of a ray and of any in-bounds voxel (i, j, k) as the
\* entry voxel of rtUddTraverse.
ChooseEntry(m) ==
  /\ pc = "voxelized"
  /\ \E o \in Origins(scene, m), r \in Directions :
       ray' = [o |-> o, r |-> r]
  /\ \E i \in 0..(udd.nv[1] - 1), j \in 0..(udd.nv[2] - 1), k \in 0..(udd.nv[3] - 1) :
       ijk' = <<i, j, k>>
  /\ found' = 1
  /\ pc' = "located"
  /\ UNCHANGED buildVars
  /\ UNCHANGED <<current, tpar, dtpar, ret, dist, called, iter>>
  /\ UNCHANGED listVars

\* rtUddTraverse(self, scene, current, ipoint, o, r, i, j, k), up to the loop.
rtUddTraverse ==
  /\ pc = "located"
  /\ \E cur \in 0..scene.nt : current' = cur
  /\ tpar' = EntryT(scene, udd, ray.o, ray.r, ijk)
  /\ dtpar' = EntryDt(scene, udd, ray.o, ray.r, ijk)
  /\ pc' = "loop"
  /\ UNCHANGED buildVars
  /\ UNCHANGED <<ray, ijk, found, ret, dist, called, iter>>
  /\ UNCHANGED listVars

\* One iteration of `while(1)`: the triangles of voxel (i, j, k) are tested,
\* and the nearest hit below the bound is returned; without one the walk
\* steps to the next voxel and returns NULL when that is outside the grid.
TraverseLoop ==
  /\ pc = "loop"
  /\ iter < MaxIter
  /\ LET voxel == udd.v[rtVoxelArrayOffset(udd, ijk[1], ijk[2], ijk[3])]
         tn    == [a \in Axes |-> RAdd(tpar[a], dtpar[a])]
         scan  == ScanVoxel(scene,
                            [dmin |-> RMin(RMin(tn[1], tn[2]), tn[3]),
                             nearest |-> NULL, called |-> called],
                            voxel.t, current, ray.o, ray.r)
         ax    == StepAxis(tn)
         nijk  == [ijk EXCEPT ![ax] = ijk[ax] + StepDir(ray.r)[ax]]
     IN  /\ iter' = iter + 1
         /\ called' = scan.called
         /\ IF voxel.nt > 0 /\ scan.nearest # NULL
            THEN /\ ret' = scan.nearest
                 /\ dist' = scan.dmin
                 /\ pc' = "done"
                 /\ UNCHANGED <<ijk, tpar>>
            ELSE /\ ijk' = nijk
                 /\ tpar' = [tpar EXCEPT ![ax] = tn[ax]]
                 /\ pc' = IF TerminationCheck(udd, nijk) THEN "done" ELSE "loop"
                 /\ UNCHANGED <<ret, dist>>
  /\ UNCHANGED buildVars
  /\ UNCHANGED <<ray, current, found, dtpar>>
  /\ UNCHANGED listVars

\* A call rtVoxelAddTriangle(&vox, t, bufsize) on the voxel vox, for any
\* triangle t: the triangle is recorded in `inserted` when the call returns 1.
VoxelAddTriangle ==
  /\ Len(inserted) < MaxInsert
  /\ \E t \in 1..scene.nt :
       LET st0 == [v |-> (0 :> vox), mallocs |-> mallocs, errno |-> errno]
           st  == rtVoxelAddTriangle(st0, oom, 0, t, bufsize)
       IN  /\ vox' = st.v[0]
           /\ mallocs' = st.mallocs
           /\ errno' = st.errno
           /\ inserted' = IF rtVoxelAddTriangleRet(st0, oom, 0) = 1
                          THEN Append(inserted, t) ELSE inserted
  /\ UNCHANGED <<scene, udd, oom, pc, tpos, bufsize>>
  /\ UNCHANGED rayVars

\* ------------------------------------------------------------------------
\* Properties of the grid rtUddCreate builds
\* ------------------------------------------------------------------------

\* Points tested by C10 have coordinates dmin[a] + n / PointDen.
PointDen == 2

\* C9 (as the code has it): after rtUddCreate succeeds, for every axis a,
\* nv[a] >= 1 and s[a] = (dmax[a] - dmin[a] + 0.001) / nv[a] on the inflated
\* bounds stored in the scene: nv[a] voxels of size s[a] tile
\* [dmin[a], dmax[a] + 0.001].
C9_GridSize ==
  pc = "created" =>
    \A a \in Axes :
      /\ udd.nv[a] >= 1
      /\ RMul(udd.s[a], RInt(udd.nv[a])) = RInt(scene.dmax[a] - scene.dmin[a] + Eps)

\* rtUddCreate has built a grid with more than one voxel along x.
C9_Witness == pc = "created" /\ udd.nv[1] >= 2

\* C9 as stated: after rtUddCreate succeeds, for every axis a,
\* s[a] = (dmax[a] - dmin[a]) / nv[a] on the inflated bounds stored in the
\* scene.
C9_Stated ==
  pc = "created" =>
    \A a \in Axes : udd.s[a] = Rat(scene.dmax[a] - scene.dmin[a], udd.nv[a])

\* The point with coordinate dmin[a] + n / PointDen on axis a and
\* dmin[b] + m / PointDen on the two other axes.
LinePoint(a, n, m) ==
  [b \in Axes |-> Rat(scene.dmin[b] * PointDen + (IF b = a THEN n ELSE m), PointDen)]

\* p lies in voxel idx: dmin + idx*s <= p < dmin + (idx + 1)*s componentwise.
InVoxel(p, idx) ==
  \A a \in Axes :
    /\ RLe(VoxelLo(scene, udd, idx)[a], p[a])
    /\ RLt(p[a], VoxelHi(scene, udd, idx)[a])

RoundTrip(p) ==
  LET res == rtVertexGetVoxel(scene, udd, p)
  IN  res.ret = 1 /\ InVoxel(p, <<res.i, res.j, res.k>>)

\* C10: for every point p strictly inside the inflated bounds, rtVertexGetVoxel
\* returns 1 with indices (i, j, k) in range that satisfy
\* dmin + (i,j,k)*s <= p < dmin + (i+1,j+1,k+1)*s componentwise, and so do the
\* indices rtUddVoxelize computes for the vertices of every triangle.  (The
\* index of each axis depends on that axis' coordinate alone, so the points
\* are taken on lines parallel to the axes.)
C10_RoundTrip ==
  pc = "created" =>
    /\ \A a \in Axes :
         \A n \in 1..((scene.dmax[a] - scene.dmin[a]) * PointDen - 1) :
           RoundTrip(LinePoint(a, n, 1))
    /\ \A x \in 1..scene.nt :
         \A p \in {scene.t[x].i, scene.t[x].j, scene.t[x].k} :
           /\ \A a \in Axes : /\ VertexIndex(scene, udd, p)[a] >= 0
                              /\ VertexIndex(scene, udd, p)[a] < udd.nv[a]
           /\ InVoxel(RPoint(p), VertexIndex(scene, udd, p))

\* A point strictly inside the bounds lies on the face shared by two voxels
\* and rtVertexGetVoxel gives it the index of the upper one.
C10_Witness ==
  /\ pc = "created"
  /\ udd.nv[1] >= 2
  /\ \E n \in 1..((scene.dmax[1] - scene.dmin[1]) * PointDen - 1) :
       /\ LinePoint(1, n, 1)[1] = VoxelLo(scene, udd, <<1, 0, 0>>)[1]
       /\ rtVertexGetVoxel(scene, udd, LinePoint(1, n, 1)).i = 1

\* ------------------------------------------------------------------------
\* Properties of the voxelization
\* ------------------------------------------------------------------------

\* Points of a triangle tested by C4: the points (a*i + b*j + c*k) / SampleDen
\* with integers a, b, c >= 0 and a + b + c = SampleDen.
SampleDen == 3

SamplePoints(tr) ==
  {[x \in Axes |-> Rat(ab[1] * tr.i[x] + ab[2] * tr.j[x]
                         + (SampleDen - ab[1] - ab[2]) * tr.k[x], SampleDen)] :
     ab \in {w \in (0..SampleDen) \X (0..SampleDen) : w[1] + w[2] <= SampleDen}}

GridIndices ==
  {<<i, j, k>> : i \in 0..(udd.nv[1] - 1), j \in 0..(udd.nv[2] - 1), k \in 0..(udd.nv[3] - 1)}

\* Triangle x is in the list of voxel idx.
Listed(x, idx) ==
  \E y \in 1..udd.v[rtVoxelArrayOffset(udd, idx[1], idx[2], idx[3])].nt :
    udd.v[rtVoxelArrayOffset(udd, idx[1], idx[2], idx[3])].t[y] = x

\* C4: after rtUddVoxelize, every triangle t is in the list of every voxel V
\* that contains a point of t (dmin + idx*s <= p < dmin + (idx + 1)*s), in
\* particular of every voxel containing one of t's vertices.
C4_ConservativeInclusion ==
  pc = "voxelized" =>
    \A x \in 1..scene.nt :
      \A p \in SamplePoints(scene.t[x]) :
        \A idx \in GridIndices : InVoxel(p, idx) => Listed(x, idx)

\* The second triangle of the sloped pair has a point strictly inside voxel
\* (0, 0, 0), whose list does not hold it.
C4_MissedVoxel ==
  /\ pc = "voxelized"
  /\ scene.t = SlopedPair
  /\ ~Listed(2, <<0, 0, 0>>)
  /\ \E p \in SamplePoints(scene.t[2]) :
       \A a \in Axes : /\ RLt(VoxelLo(scene, udd, <<0, 0, 0>>)[a], p[a])
                       /\ RLt(p[a], VoxelHi(scene, udd, <<0, 0, 0>>)[a])

\* The eight corners of the box [x1,x2] x [y1,y2] x [z1,z2] of voxel idx.
BoxCorners(idx) ==
  {<<x, y, z>> : x \in {VoxelLo(scene, udd, idx)[1], VoxelHi(scene, udd, idx)[1]},
                 y \in {VoxelLo(scene, udd, idx)[2], VoxelHi(scene, udd, idx)[2]},
                 z \in {VoxelLo(scene, udd, idx)[3], VoxelHi(scene, udd, idx)[3]}}

\* The candidate index box [min, max] of triangle tr.
CandidateBox(tr) ==
  {idx \in GridIndices :
     \A a \in Axes : /\ BoxMin(scene, udd, tr)[a] <= idx[a]
                     /\ idx[a] <= BoxMax(scene, udd, tr)[a]}

\* C5: after rtUddVoxelize, for every triangle t and every voxel V of t's
\* candidate index box that does not list t, n_t . corner + d_t has the same
\* strict sign at all eight corners of V's box (all > 0 or all < 0).
C5_ExclusionTest ==
  pc = "voxelized" =>
    \A x \in 1..scene.nt :
      \A idx \in CandidateBox(scene.t[x]) :
        ~Listed(x, idx) =>
          \/ \A c \in BoxCorners(idx) : RSign(PlaneValue(scene.t[x], c)) > 0
          \/ \A c \in BoxCorners(idx) : RSign(PlaneValue(scene.t[x], c)) < 0

\* A voxel of the candidate box of the second triangle that is left out of
\* its list although the triangle's plane separates the voxel's corners, with
\* no corner on the plane.
C5_CrossedSkipped ==
  /\ pc = "voxelized"
  /\ scene.nt = 2
  /\ \E idx \in CandidateBox(scene.t[2]) :
       /\ ~Listed(2, idx)
       /\ \E c \in BoxCorners(idx) : RSign(PlaneValue(scene.t[2], c)) > 0
       /\ \E c \in BoxCorners(idx) : RSign(PlaneValue(scene.t[2], c)) < 0
       /\ \A c \in BoxCorners(idx) : RSign(PlaneValue(scene.t[2], c)) # 0
       /\ \A c \in 1..8 :
            RSign(PlaneValue(scene.t[2], Corners(scene, udd, idx)[c])) # 0

\* C7: if an rtVoxelAddTriangle call made by rtUddVoxelize fails to allocate
\* (errno is E_MEMORY while the loop over the triangles runs), voxelization
\* aborts at that point: no further triangle is inserted into any voxel.
C7_AbortOnOom ==
  [][(pc = "voxelize" /\ errno = E_MEMORY) => udd'.v = udd.v]_vars

\* ------------------------------------------------------------------------
\* Properties of the locator
\* ------------------------------------------------------------------------

\* The parameters at which the ray o + t*r crosses the two planes of axis a
\* of the box [lo, hi] (r[a] # 0): the smaller and the larger.
SlabNear(o, r, lo, hi, a) ==
  LET t1 == RDiv(RSub(lo[a], RInt(o[a])), RInt(r[a]))
      t2 == RDiv(RSub(hi[a], RInt(o[a])), RInt(r[a]))
  IN  IF RLt(t1, t2) THEN t1 ELSE t2
SlabFar(o, r, lo, hi, a) ==
  LET t1 == RDiv(RSub(lo[a], RInt(o[a])), RInt(r[a]))
      t2 == RDiv(RSub(hi[a], RInt(o[a])), RInt(r[a]))
  IN  IF RLt(t1, t2) THEN t2 ELSE t1

\* The closed box [lo, hi] contains a point o + t*r with t >= 0.
RayMeetsBox(o, r, lo, hi) ==
  /\ \A a \in Axes : r[a] = 0 => RLe(lo[a], RInt(o[a])) /\ RLe(RInt(o[a]), hi[a])
  /\ \A a \in Axes : r[a] # 0 => RLe(RInt(0), SlabFar(o, r, lo, hi, a))
  /\ \A a \in Axes : \A b \in Axes :
       (r[a] # 0 /\ r[b] # 0) => RLe(SlabNear(o, r, lo, hi, a), SlabFar(o, r, lo, hi, b))

\* The interior of the box [lo, hi] contains a point o + t*r with t > 0.
RayEntersBox(o, r, lo, hi) ==
  /\ \A a \in Axes : r[a] = 0 => RLt(lo[a], RInt(o[a])) /\ RLt(RInt(o[a]), hi[a])
  /\ \A a \in Axes : r[a] # 0 => RLt(RInt(0), SlabFar(o, r, lo, hi, a))
  /\ \A a \in Axes : \A b \in Axes :
       (r[a] # 0 /\ r[b] # 0) => RLt(SlabNear(o, r, lo, hi, a), SlabFar(o, r, lo, hi, b))

\* The parameter at which a ray from outside the box [lo, hi] enters it: the
\* largest of the near crossings.
EntryParameter(o, r, lo, hi) ==
  LET near == {SlabNear(o, r, lo, hi, a) : a \in {b \in Axes : r[b] # 0}}
  IN  CHOOSE t \in near : \A u \in near : RLe(u, t)

OriginOutside ==
  \E a \in Axes : ray.o[a] < scene.dmin[a] \/ ray.o[a] > scene.dmax[a]

\* C2: if rtUddFindStartupVoxel returns 1 with indices (i, j, k), the voxel at
\* (i, j, k) contains a point o + t*r of the ray with t >= 0.
C2_LocatorSound ==
  (pc = "located" /\ found = 1) =>
    RayMeetsBox(ray.o, ray.r, VoxelLo(scene, udd, ijk), VoxelHi(scene, udd, ijk))

\* C3: for a ray whose origin lies outside the inflated bounds and which
\* enters the domain, rtUddFindStartupVoxel returns 1 with the indices of the
\* voxel that holds the entry point; it returns 0 only for rays that never
\* enter the domain.
C3_LocatorComplete ==
  (pc \in {"located", "miss"} /\ OriginOutside
     /\ RayEntersBox(ray.o, ray.r, RPoint(scene.dmin), RPoint(scene.dmax))) =>
    /\ found = 1
    /\ LET e == rtVectorRaypoint(ray.o, ray.r,
                  EntryParameter(ray.o, ray.r, RPoint(scene.dmin), RPoint(scene.dmax)))
       IN  \A a \in Axes : /\ RLe(VoxelLo(scene, udd, ijk)[a], e[a])
                           /\ RLe(e[a], VoxelHi(scene, udd, ijk)[a])

\* A ray from outside the bounds that passes through the interior of the
\* domain is reported as a miss, and the two points the locator tested lie
\* more than 0.001 beyond dmax.
C3_MissedEntry ==
  /\ pc = "miss"
  /\ scene.t = <<WideTriangle>>
  /\ ray = [o |-> <<6, 8, 6>>, r |-> <<-1, -1, -1>>]
  /\ RayEntersBox(ray.o, ray.r, RPoint(scene.dmin), RPoint(scene.dmax))

\* The locator accepts an origin below dmin whose ray points away from the
\* grid.
C2_OutsideAccepted ==
  /\ pc = "located"
  /\ ray = [o |-> <<-3, -3, -3>>, r |-> <<-1, -1, -1>>]
  /\ ijk = <<0, 0, 0>>

\* ------------------------------------------------------------------------
\* Properties of the traversal
\* ------------------------------------------------------------------------

\* The predicate's result for triangle x of the scene on the ray of the query.
Hit(x) == isint(scene.t[x], ray.o, ray.r)

\* C1: for a grid built by rtUddCreate and rtUddVoxelize and an entry voxel
\* produced by rtUddFindStartupVoxel, when rtUddTraverse returns a triangle T
\* with distance d, no other triangle of the scene (other than `current`)
\* intersects the ray at a distance d' < d, and it returns NULL only when no
\* triangle other than `current` intersects the ray: the result is that of a
\* scan over all triangles.
C1_NearestHit ==
  pc = "done" =>
    /\ ret # NULL =>
         /\ Hit(ret).hit /\ Hit(ret).d = dist
         /\ \A x \in 1..scene.nt : (x # current /\ Hit(x).hit) => ~RLt(Hit(x).d, dist)
    /\ ret = NULL => \A x \in 1..scene.nt : x # current => ~Hit(x).hit

\* The traverser returns a triangle although the ray meets another triangle
\* nearer, at a point strictly inside a voxel that does not list it.
C1_DroppedNearer ==
  /\ pc = "done"
  /\ ret # NULL
  /\ \E x \in 1..scene.nt :
       /\ x # current
       /\ Hit(x).hit
       /\ RLt(Hit(x).d, dist)
       /\ \E idx \in GridIndices :
            /\ ~Listed(x, idx)
            /\ \A a \in Axes :
                 /\ RLt(VoxelLo(scene, udd, idx)[a], rtVectorRaypoint(ray.o, ray.r, Hit(x).d)[a])
                 /\ RLt(rtVectorRaypoint(ray.o, ray.r, Hit(x).d)[a], VoxelHi(scene, udd, idx)[a])

\* C6: when rtUddTraverse is invoked with current = T it never returns T, and
\* the intersection predicate is never invoked on T.
C6_SkipSelf ==
  (pc \in {"loop", "done"} /\ current # NULL) =>
    (ret # current /\ current \notin called)

\* The traverser returns another triangle from a voxel that lists `current`,
\* although the ray meets `current` nearer.
C6_Witness ==
  /\ pc = "done"
  /\ current # NULL
  /\ ret # NULL
  /\ Listed(current, ijk)
  /\ Hit(current).hit
  /\ RLt(Hit(current).d, dist)

\* C8: rtUddTraverse terminates: each loop iteration that does not return a
\* triangle changes exactly one of i, j, k, by +1 when the ray's direction on
\* that axis is positive and by -1 otherwise, and the loop runs at most
\* nx + ny + nz iterations.
C8_Termination ==
  /\ [](pc = "loop" => iter < udd.nv[1] + udd.nv[2] + udd.nv[3])
  /\ [](pc = "done" => iter <= udd.nv[1] + udd.nv[2] + udd.nv[3])
  /\ [][(pc = "loop" /\ ret' = NULL) =>
          \E a \in Axes :
            /\ ijk'[a] = ijk[a] + (IF ray.r[a] > 0 THEN 1 ELSE -1)
            /\ \A b \in Axes \ {a} : ijk'[b] = ijk[b]]_vars

\* A traversal has walked through three voxels and left the grid.
C8_Witness == pc = "done" /\ ret = NULL /\ iter >= 3

\* C11: from an entry voxel inside the grid, at every head of the main loop
\* of rtUddTraverse each of i, j, k is in [0, nv[axis]) and the offset of the
\* voxel read is in [0, nx*ny*nz), an element of the voxel array; and a step
\* that takes an index out of [0, nv[axis]) makes the traverser return NULL
\* at once.
C11_LoopInBounds ==
  /\ [](pc = "loop" =>
         /\ \A a \in Axes : 0 <= ijk[a] /\ ijk[a] < udd.nv[a]
         /\ rtVoxelArrayOffset(udd, ijk[1], ijk[2], ijk[3]) >= 0
         /\ rtVoxelArrayOffset(udd, ijk[1], ijk[2], ijk[3])
              < udd.nv[1] * udd.nv[2] * udd.nv[3]
         /\ rtVoxelArrayOffset(udd, ijk[1], ijk[2], ijk[3]) \in DOMAIN udd.v)
  /\ [][(pc = "loop" /\ \E a \in Axes : ijk'[a] < 0 \/ ijk'[a] >= udd.nv[a]) =>
          (pc' = "done" /\ ret' = NULL)]_vars

\* A traversal that stepped at least twice inside the grid and returned NULL
\* when an index went below 0.
C11_Witness ==
  /\ pc = "done"
  /\ ret = NULL
  /\ iter >= 3
  /\ \E a \in Axes : ijk[a] = -1

\* t_next of axis a at the head of the loop: tx + dtx, ty + dty, tz + dtz.
TNext(a) == RAdd(tpar[a], dtpar[a])

\* C12 (as stated): in each step of rtUddTraverse the stepped axis has the
\* smallest t_next, and among axes of equal smallest t_next the first of
\* x, y, z is stepped: no axis before the stepped one has the same t_next.
C12_Stated ==
  [][(pc = "loop" /\ ijk' # ijk) =>
       \A a \in Axes :
         ijk'[a] # ijk[a] =>
           /\ \A b \in Axes : RLe(TNext(a), TNext(b))
           /\ \A b \in Axes : b < a => RLt(TNext(a), TNext(b))]_vars

\* C12 (as the code has it): in each step of rtUddTraverse the stepped axis
\* has the smallest t_next, and among axes of equal smallest t_next the last
\* of x, y, z is stepped (z in preference to y, y in preference to x): no
\* axis after the stepped one has the same t_next.  The stepped axis is thus
\* determined by (tx_next, ty_next, tz_next).
C12_TieBreak ==
  [][(pc = "loop" /\ ijk' # ijk) =>
       \A a \in Axes :
         ijk'[a] # ijk[a] =>
           /\ \A b \in Axes : RLe(TNext(a), TNext(b))
           /\ \A b \in Axes : b > a => RLt(TNext(a), TNext(b))]_vars

\* The last step of a traversal left the grid along y when x and y had the
\* same t_next, smaller than that of z (ty now holds the t_next taken, tx
\* and tz are as they were at that step).
C12_Witness ==
  /\ pc = "done"
  /\ ret = NULL
  /\ ijk[2] < 0 \/ ijk[2] >= udd.nv[2]
  /\ RLe(tpar[2], TNext(1)) /\ RLe(TNext(1), tpar[2])
  /\ RLt(tpar[2], TNext(3))

\* ------------------------------------------------------------------------
\* Properties of the voxel's triangle list
\* ------------------------------------------------------------------------

\* C13: starting from a zeroed voxel, after n >= 1 successful
\* rtVoxelAddTriangle calls with buffer size B the voxel has nt = n, its
\* first n slots hold the inserted triangles in insertion order, the capacity
\* allocated is nt + p and is the smallest positive multiple of B that is
\* >= n, and 0 <= p < B; before the first successful call it is still zeroed.
C13_ListGrowth ==
  /\ vox.nt = Len(inserted)
  /\ vox.t = inserted
  /\ Len(inserted) = 0 => vox = ZeroVoxel
  /\ Len(inserted) > 0 =>
       /\ vox.cap = vox.nt + vox.p
       /\ vox.cap > 0
       /\ vox.cap % bufsize = 0
       /\ vox.cap >= Len(inserted)
       /\ vox.cap - bufsize < Len(inserted)
       /\ 0 <= vox.p
       /\ vox.p < bufsize

\* The list has been reallocated at least twice, holds different triangles
\* and one call in between failed to allocate.
C13_Witness ==
  /\ bufsize >= 2
  /\ Len(inserted) > 2 * bufsize
  /\ inserted[1] # inserted[2]
  /\ inserted[bufsize] # inserted[bufsize + 1]
  /\ errno = E_MEMORY

\* ------------------------------------------------------------------------
\* Specifications
\* ------------------------------------------------------------------------

\* Origins of the rays of Spec lie at most OriginMargin outside the bounds,
\* those of SpecLocate at most LocateMargin, those of SpecWalk at most
\* WalkMargin.
OriginMargin == 1
LocateMargin == 5
WalkMargin == 0

\* Scenes of SpecGrid have vertices in 0..GridCoord.
GridCoord == 2

\* In SpecOom the failing malloc call is one of the first MaxOom calls.
MaxOom == 6

NextBuild == rtUddCreate \/ rtUddVoxelize \/ VoxelizeTriangle \/ VoxelizeReturn

\* The whole program on the scenario scenes and the sloped pair: the grid is
\* built, then one ray is located and traversed.
Init == InitWith(ScenarioScenes \cup {SlopedPair}, {0})
Next ==
  \/ rtUddCreate
  \/ rtUddVoxelize
  \/ VoxelizeTriangle
  \/ VoxelizeReturn
  \/ FindStartupVoxel(OriginMargin)
  \/ rtUddTraverse
  \/ TraverseLoop
Spec == Init /\ [][Next]_vars

\* The traverser from any in-bounds entry voxel, on the stacked pair (no voxel
\* lists both triangles) and the sloped pair (some voxels list both).
NextWalk ==
  \/ rtUddCreate
  \/ rtUddVoxelize
  \/ VoxelizeTriangle
  \/ VoxelizeReturn
  \/ ChooseEntry(WalkMargin)
  \/ rtUddTraverse
  \/ TraverseLoop
InitWalk == InitWith({StackedPair, SlopedPair}, {0})
SpecWalk == InitWalk /\ [][NextWalk]_vars

\* The locator alone, with origins further from the domain.
NextLocate ==
  \/ rtUddCreate
  \/ rtUddVoxelize
  \/ VoxelizeTriangle
  \/ VoxelizeReturn
  \/ FindStartupVoxel(LocateMargin)
InitLocate == InitWith({<<FlatTriangle>>, <<WideTriangle>>}, {0})
SpecLocate == InitLocate /\ [][NextLocate]_vars

\* rtUddCreate on every scene of one triangle with vertices in 0..GridCoord
\* and on every pair of parallel triangles with vertices in 0..GridCoord - 1.
InitGrid == InitWith(SinglesOn(GridCoord) \cup CopiesOn(GridCoord - 1), {0})
NextGrid == rtUddCreate
SpecGrid == InitGrid /\ [][NextGrid]_vars

\* The voxelizer on pairs of parallel triangles.
InitBuild == InitWith(CopiesOn(MaxCoord), {0})
SpecBuild == InitBuild /\ [][NextBuild]_vars

\* The build with one failing malloc call.
InitOom == InitWith(CopiesOn(1), 0..MaxOom)
SpecOom == InitOom /\ [][NextBuild]_vars

\* rtVoxelAddTriangle alone: up to MaxInsert insertions of the two triangles
\* of a scene into one zeroed voxel, with buffer sizes 1..MaxBuf and at most
\* one failing malloc call.
InitVoxel == InitState({StackedPair}, 0..MaxOom, 1..MaxBuf)
NextVoxel == VoxelAddTriangle
SpecVoxel == InitVoxel /\ [][NextVoxel]_vars

====
